---- MODULE Spec2Model ----
(***************************************************************************)
(* Model of the LogAggregator load generators:                             *)
(*   generate_logs.py  main()  -- backfill: TOTAL_LOGS records in batches  *)
(*                                of BATCH_SIZE, then a summary            *)
(*   stream_logs.py    main()  -- stream: one batch of LOGS_PER_SECOND     *)
(*                                records per second until Ctrl+C          *)
(* A record is represented by its generation number; time is counted in    *)
(* clock ticks, Ticks of them to the second.                               *)
(***************************************************************************)
EXTENDS Integers, Sequences, FiniteSets, TLC

\* ------------------------------------------------------------- bounds
MaxBatch == 3        \* BATCH_SIZE is drawn from 1..MaxBatch
MaxTotal == 7        \* TOTAL_LOGS is drawn from 0..MaxTotal
MaxRate == 2         \* LOGS_PER_SECOND is drawn from 1..MaxRate
MaxCycles == 3       \* stream cycles started in one run
Ticks == 2           \* clock ticks per second

\* generating one batch takes 0..MaxGenTime ticks, one requests.post call
\* 0..MaxLatency ticks (shorter and longer than the quantum)
MaxGenTime == Ticks - 1
MaxLatency == Ticks + 1

\* ------------------------------------------------------------- state
VARIABLES
    mode,            \* which script runs: "backfill" or "stream"
    pc,              \* position of main() in its source
    TOTAL_LOGS,      \* generate_logs.py:9
    BATCH_SIZE,      \* generate_logs.py:10
    LOGS_PER_SECOND, \* stream_logs.py:10
    i,               \* backfill: records generated so far (loop index + 1)
    batch,           \* the list being filled / sent
    total_sent,      \* generate_logs.py:79
    batch_count,     \* stream_logs.py:56
    response,        \* result of the last requests.post
    now,             \* the wall clock, in ticks
    start_time,      \* stream_logs.py:60
    elapsed,         \* stream_logs.py:79
    sleep_time,      \* stream_logs.py:80
    calls,           \* history: every requests.post call, with its result
    starts,          \* history: start_time of every stream cycle
    cycles_done,     \* history: stream cycles whose sleep has returned
    interrupted_at,  \* history: pc at which KeyboardInterrupt was raised
    printed,         \* what the final print reported
    TIME_RANGE,      \* generate_logs.py:14
    clock,           \* generate_log_entry: datetime.now(timezone.utc)
    time_offset,     \* generate_log_entry: generate_logs.py:46
    timestamp        \* generate_log_entry: the instant the string denotes

vars == <<mode, pc, TOTAL_LOGS, BATCH_SIZE, LOGS_PER_SECOND, i, batch,
          total_sent, batch_count, response, now, start_time, elapsed,
          sleep_time, calls, starts, cycles_done, interrupted_at, printed,
          TIME_RANGE, clock, time_offset, timestamp>>

entryVars == <<TIME_RANGE, clock, time_offset, timestamp>>
backfillVars == <<TOTAL_LOGS, BATCH_SIZE, i, total_sent>>
streamVars == <<LOGS_PER_SECOND, batch_count, start_time, elapsed, sleep_time,
                starts, cycles_done, interrupted_at>>

\* no instant read / no timestamp formatted yet (see the log entry section)
NoInstant == [sec |-> 0, micro |-> 0]
NoTimestamp == [sec |-> 0, milli |-> 0]

\* ------------------------------------------------------------- requests.post
NoException == "none"

\* Status codes a response can carry: the accepted one, another 2xx, an error.
StatusCodes == {200, 202, 500}

\* Exceptions requests.post can raise: requests.exceptions.ConnectionError
\* (connection refused, reset) and RequestException subclasses that are not
\* ConnectionError (a body cut off while it is read: ChunkedEncodingError).
Exceptions == {"ConnectionError", "ChunkedEncodingError"}

\* Every way one requests.post(API_URL, json=batch) call can end.
PostResults ==
    {[raised |-> NoException, status_code |-> s] : s \in StatusCodes}
    \cup {[raised |-> e, status_code |-> 0] : e \in Exceptions}

NoResponse == [raised |-> NoException, status_code |-> 0]

\* a slip: any 2xx status taken as accepted
IsAccepted2xx(r) ==
    r.raised = NoException /\ r.status_code >= 200 /\ r.status_code < 300

\* `response.status_code == 202`
IsAccepted(r) == r.raised = NoException /\ r.status_code = 202

\* `except requests.exceptions.ConnectionError`
IsConnectionError(r) == r.raised = "ConnectionError"

\* ------------------------------------------------------------- backfill
\* a slip: `len(batch) > BATCH_SIZE`
IsFullOffByOne(b, size) == Len(b) > size

\* `len(batch) >= BATCH_SIZE`
IsFull(b, size) == Len(b) >= size

InitBackfill ==
    /\ mode = "backfill"
    /\ pc = "for"
    /\ TOTAL_LOGS \in 0..MaxTotal
    /\ BATCH_SIZE \in 1..MaxBatch
    /\ LOGS_PER_SECOND = 0
    /\ i = 0
    /\ batch = <<>>
    /\ total_sent = 0
    /\ batch_count = 0
    /\ response = NoResponse
    /\ now = 0
    /\ start_time = 0
    /\ elapsed = 0
    /\ sleep_time = 0
    /\ calls = <<>>
    /\ starts = <<>>
    /\ cycles_done = 0
    /\ interrupted_at = "never"
    /\ printed = -1
    /\ TIME_RANGE = "last_24_hours"
    /\ clock = NoInstant
    /\ time_offset = 0
    /\ timestamp = NoTimestamp

\* a slip: `batch.insert(0, ...)` instead of `batch.append(...)`
GeneratePrepend ==
    /\ mode = "backfill" /\ pc = "for"
    /\ i < TOTAL_LOGS
    /\ i' = i + 1
    /\ batch' = <<i + 1>> \o batch
    /\ pc' = IF IsFull(batch', BATCH_SIZE) THEN "post" ELSE "for"
    /\ UNCHANGED <<entryVars, mode, TOTAL_LOGS, BATCH_SIZE, LOGS_PER_SECOND, total_sent,
                   batch_count, response, now, start_time, elapsed,
                   sleep_time, calls, starts, cycles_done, interrupted_at,
                   printed>>

\* a slip: the size test runs before the append, so the list reaches
\* BATCH_SIZE + 1 records before it is sent
GenerateTestBeforeAppend ==
    /\ mode = "backfill" /\ pc = "for"
    /\ i < TOTAL_LOGS
    /\ i' = i + 1
    /\ batch' = Append(batch, i + 1)
    /\ pc' = IF IsFull(batch, BATCH_SIZE) THEN "post" ELSE "for"
    /\ UNCHANGED <<entryVars, mode, TOTAL_LOGS, BATCH_SIZE, LOGS_PER_SECOND, total_sent,
                   batch_count, response, now, start_time, elapsed,
                   sleep_time, calls, starts, cycles_done, interrupted_at,
                   printed>>

\* for i in range(TOTAL_LOGS): batch.append(generate_log_entry()); if full ...
Generate ==
    /\ mode = "backfill" /\ pc = "for"
    /\ i < TOTAL_LOGS
    /\ i' = i + 1
    /\ batch' = Append(batch, i + 1)
    /\ pc' = IF IsFull(batch', BATCH_SIZE) THEN "post" ELSE "for"
    /\ UNCHANGED <<entryVars, mode, TOTAL_LOGS, BATCH_SIZE, LOGS_PER_SECOND, total_sent,
                   batch_count, response, now, start_time, elapsed,
                   sleep_time, calls, starts, cycles_done, interrupted_at,
                   printed>>

\* a slip: the `if batch:` guard is missing, the flush is always sent
LoopExitAlwaysFlush ==
    /\ mode = "backfill" /\ pc = "for"
    /\ i >= TOTAL_LOGS
    /\ pc' = "flush_post"
    /\ UNCHANGED <<entryVars, mode, TOTAL_LOGS, BATCH_SIZE, LOGS_PER_SECOND, i, batch,
                   total_sent, batch_count, response, now, start_time,
                   elapsed, sleep_time, calls, starts, cycles_done,
                   interrupted_at, printed>>

\* the for loop is exhausted: `if batch:` decides on the final flush
LoopExit ==
    /\ mode = "backfill" /\ pc = "for"
    /\ i >= TOTAL_LOGS
    /\ pc' = IF batch # <<>> THEN "flush_post" ELSE "summary"
    /\ UNCHANGED <<entryVars, mode, TOTAL_LOGS, BATCH_SIZE, LOGS_PER_SECOND, i, batch,
                   total_sent, batch_count, response, now, start_time,
                   elapsed, sleep_time, calls, starts, cycles_done,
                   interrupted_at, printed>>

\* where control goes when requests.post ends with result r inside
\* `try: ... except requests.exceptions.ConnectionError:`
AfterPost(r, handler) ==
    IF r.raised = NoException THEN handler
    ELSE IF IsConnectionError(r) THEN "except"
    ELSE "crashed"

\* response = requests.post(API_URL, json=batch)      (full batch)
Post ==
    /\ mode = "backfill" /\ pc = "post"
    /\ \E r \in PostResults :
         /\ response' = r
         /\ calls' = Append(calls, [batch |-> batch, result |-> r])
         /\ pc' = AfterPost(r, "handle")
    /\ UNCHANGED <<entryVars, mode, TOTAL_LOGS, BATCH_SIZE, LOGS_PER_SECOND, i, batch,
                   total_sent, batch_count, now, start_time, elapsed,
                   sleep_time, starts, cycles_done, interrupted_at, printed>>

\* a slip: `batch = []` is missing, the list keeps growing
HandleNoClear ==
    /\ mode = "backfill" /\ pc = "handle"
    /\ total_sent' = IF IsAccepted(response) THEN total_sent + Len(batch)
                     ELSE total_sent
    /\ pc' = "for"
    /\ UNCHANGED <<entryVars, mode, TOTAL_LOGS, BATCH_SIZE, LOGS_PER_SECOND, i, batch,
                   batch_count, response, now, start_time, elapsed,
                   sleep_time, calls, starts, cycles_done, interrupted_at,
                   printed>>

\* a slip: the batch is cleared only when it was accepted (a rejected batch
\* stays in the list and is sent again)
HandleKeepRejected ==
    /\ mode = "backfill" /\ pc = "handle"
    /\ total_sent' = IF IsAccepted(response) THEN total_sent + Len(batch)
                     ELSE total_sent
    /\ batch' = IF IsAccepted(response) THEN <<>> ELSE batch
    /\ pc' = "for"
    /\ UNCHANGED <<entryVars, mode, TOTAL_LOGS, BATCH_SIZE, LOGS_PER_SECOND, i,
                   batch_count, response, now, start_time, elapsed,
                   sleep_time, calls, starts, cycles_done, interrupted_at,
                   printed>>

\* if response.status_code == 202: total_sent += len(batch) ...; batch = []
Handle ==
    /\ mode = "backfill" /\ pc = "handle"
    /\ total_sent' = IF IsAccepted(response) THEN total_sent + Len(batch)
                     ELSE total_sent
    /\ batch' = <<>>
    /\ pc' = "for"
    /\ UNCHANGED <<entryVars, mode, TOTAL_LOGS, BATCH_SIZE, LOGS_PER_SECOND, i,
                   batch_count, response, now, start_time, elapsed,
                   sleep_time, calls, starts, cycles_done, interrupted_at,
                   printed>>

\* response = requests.post(API_URL, json=batch)      (remaining logs)
FlushPost ==
    /\ mode = "backfill" /\ pc = "flush_post"
    /\ \E r \in PostResults :
         /\ response' = r
         /\ calls' = Append(calls, [batch |-> batch, result |-> r])
         /\ pc' = AfterPost(r, "flush_handle")
    /\ UNCHANGED <<entryVars, mode, TOTAL_LOGS, BATCH_SIZE, LOGS_PER_SECOND, i, batch,
                   total_sent, batch_count, now, start_time, elapsed,
                   sleep_time, starts, cycles_done, interrupted_at, printed>>

\* a slip: `total_sent += BATCH_SIZE` for the partial batch
FlushHandleAddsBatchSize ==
    /\ mode = "backfill" /\ pc = "flush_handle"
    /\ total_sent' = IF IsAccepted(response) THEN total_sent + BATCH_SIZE
                     ELSE total_sent
    /\ pc' = "summary"
    /\ UNCHANGED <<entryVars, mode, TOTAL_LOGS, BATCH_SIZE, LOGS_PER_SECOND, i, batch,
                   batch_count, response, now, start_time, elapsed,
                   sleep_time, calls, starts, cycles_done, interrupted_at,
                   printed>>

\* if response.status_code == 202: total_sent += len(batch) ... (no clear)
FlushHandle ==
    /\ mode = "backfill" /\ pc = "flush_handle"
    /\ total_sent' = IF IsAccepted(response) THEN total_sent + Len(batch)
                     ELSE total_sent
    /\ pc' = "summary"
    /\ UNCHANGED <<entryVars, mode, TOTAL_LOGS, BATCH_SIZE, LOGS_PER_SECOND, i, batch,
                   batch_count, response, now, start_time, elapsed,
                   sleep_time, calls, starts, cycles_done, interrupted_at,
                   printed>>

\* a slip: the handler sits inside the for loop (the stream script's
\* policy), so the run goes on with the next records
ExceptResume ==
    /\ mode = "backfill" /\ pc = "except"
    /\ batch' = <<>>
    /\ pc' = "for"
    /\ UNCHANGED <<entryVars, mode, TOTAL_LOGS, BATCH_SIZE, LOGS_PER_SECOND, i,
                   total_sent, batch_count, response, now, start_time,
                   elapsed, sleep_time, calls, starts, cycles_done,
                   interrupted_at, printed>>

\* except requests.exceptions.ConnectionError: print(...)
Except ==
    /\ mode = "backfill" /\ pc = "except"
    /\ pc' = "summary"
    /\ UNCHANGED <<entryVars, mode, TOTAL_LOGS, BATCH_SIZE, LOGS_PER_SECOND, i, batch,
                   total_sent, batch_count, response, now, start_time,
                   elapsed, sleep_time, calls, starts, cycles_done,
                   interrupted_at, printed>>

\* print(f"Complete! Sent {total_sent} logs total")
Summary ==
    /\ mode = "backfill" /\ pc = "summary"
    /\ printed' = total_sent
    /\ pc' = "done"
    /\ UNCHANGED <<entryVars, mode, TOTAL_LOGS, BATCH_SIZE, LOGS_PER_SECOND, i, batch,
                   total_sent, batch_count, response, now, start_time,
                   elapsed, sleep_time, calls, starts, cycles_done,
                   interrupted_at>>

NextBackfill ==
    \/ Generate
    \/ LoopExit
    \/ Post
    \/ Handle
    \/ FlushPost
    \/ FlushHandle
    \/ Except
    \/ Summary

\* ------------------------------------------------------------- stream
\* the quantum `1.0` of `max(0, 1.0 - elapsed)`, in ticks
QUANTUM == 1 * Ticks

\* a slip: `time.sleep(1.0)` whatever the cycle took
SleepTimeFixed(e) == QUANTUM

\* a drift-compensating controller: sleep until first start + n quanta
SleepTimeCatchUp(e) ==
    IF starts[1] + Len(starts) * QUANTUM - now > 0
    THEN starts[1] + Len(starts) * QUANTUM - now
    ELSE 0

\* `max(0, 1.0 - elapsed)`
SleepTime(e) == IF QUANTUM - e > 0 THEN QUANTUM - e ELSE 0

\* positions inside `while True:`
StreamLoopPcs == {"start", "generate", "post", "handle", "except", "pace",
                  "sleep"}

InitStream ==
    /\ mode = "stream"
    /\ pc = "start"
    /\ TOTAL_LOGS = 0
    /\ BATCH_SIZE = 0
    /\ LOGS_PER_SECOND \in 1..MaxRate
    /\ i = 0
    /\ batch = <<>>
    /\ total_sent = 0
    /\ batch_count = 0
    /\ response = NoResponse
    /\ now = 0
    /\ start_time = 0
    /\ elapsed = 0
    /\ sleep_time = 0
    /\ calls = <<>>
    /\ starts = <<>>
    /\ cycles_done = 0
    /\ interrupted_at = "never"
    /\ printed = -1
    /\ TIME_RANGE = "last_24_hours"
    /\ clock = NoInstant
    /\ time_offset = 0
    /\ timestamp = NoTimestamp

\* while True: start_time = time.time()
StartCycle ==
    /\ mode = "stream" /\ pc = "start"
    /\ Len(starts) < MaxCycles
    /\ start_time' = now
    /\ starts' = Append(starts, now)
    /\ pc' = "generate"
    /\ UNCHANGED <<entryVars, mode, backfillVars, LOGS_PER_SECOND, batch, batch_count,
                   response, now, elapsed, sleep_time, calls, cycles_done,
                   interrupted_at, printed>>

\* a slip: `range(LOGS_PER_SECOND - 1)`
GenerateBatchShort ==
    /\ mode = "stream" /\ pc = "generate"
    /\ batch' = [k \in 1..(LOGS_PER_SECOND - 1) |->
                    (Len(starts) - 1) * LOGS_PER_SECOND + k]
    /\ \E d \in 0..MaxGenTime : now' = now + d
    /\ pc' = "post"
    /\ UNCHANGED <<entryVars, mode, backfillVars, LOGS_PER_SECOND, batch_count, response,
                   start_time, elapsed, sleep_time, calls, starts,
                   cycles_done, interrupted_at, printed>>

\* batch = [generate_live_log_entry() for _ in range(LOGS_PER_SECOND)]
GenerateBatch ==
    /\ mode = "stream" /\ pc = "generate"
    /\ batch' = [k \in 1..LOGS_PER_SECOND |->
                    (Len(starts) - 1) * LOGS_PER_SECOND + k]
    /\ \E d \in 0..MaxGenTime : now' = now + d
    /\ pc' = "post"
    /\ UNCHANGED <<entryVars, mode, backfillVars, LOGS_PER_SECOND, batch_count, response,
                   start_time, elapsed, sleep_time, calls, starts,
                   cycles_done, interrupted_at, printed>>

\* try: response = requests.post(API_URL, json=batch)
StreamPost ==
    /\ mode = "stream" /\ pc = "post"
    /\ \E r \in PostResults :
         /\ response' = r
         /\ calls' = Append(calls, [batch |-> batch, result |-> r])
         /\ pc' = AfterPost(r, "handle")
    /\ \E d \in 0..MaxLatency : now' = now + d
    /\ UNCHANGED <<entryVars, mode, backfillVars, LOGS_PER_SECOND, batch, batch_count,
                   start_time, elapsed, sleep_time, starts, cycles_done,
                   interrupted_at, printed>>

\* a slip: `batch_count += 1` outside the `if`
StreamHandleCountAll ==
    /\ mode = "stream" /\ pc = "handle"
    /\ batch_count' = batch_count + 1
    /\ pc' = "pace"
    /\ UNCHANGED <<entryVars, mode, backfillVars, LOGS_PER_SECOND, batch, response, now,
                   start_time, elapsed, sleep_time, calls, starts,
                   cycles_done, interrupted_at, printed>>

\* if response.status_code == 202: batch_count += 1 ... else: print(...)
StreamHandle ==
    /\ mode = "stream" /\ pc = "handle"
    /\ batch_count' = IF IsAccepted(response) THEN batch_count + 1
                      ELSE batch_count
    /\ pc' = "pace"
    /\ UNCHANGED <<entryVars, mode, backfillVars, LOGS_PER_SECOND, batch, response, now,
                   start_time, elapsed, sleep_time, calls, starts,
                   cycles_done, interrupted_at, printed>>

\* a slip: the failed cycle is counted as a sent batch
StreamExceptCounts ==
    /\ mode = "stream" /\ pc = "except"
    /\ batch_count' = batch_count + 1
    /\ pc' = "pace"
    /\ UNCHANGED <<entryVars, mode, backfillVars, LOGS_PER_SECOND, batch, response, now,
                   start_time, elapsed, sleep_time, calls, starts,
                   cycles_done, interrupted_at, printed>>

\* except requests.exceptions.ConnectionError: print(...)
StreamExcept ==
    /\ mode = "stream" /\ pc = "except"
    /\ pc' = "pace"
    /\ UNCHANGED <<entryVars, mode, backfillVars, LOGS_PER_SECOND, batch, batch_count,
                   response, now, start_time, elapsed, sleep_time, calls,
                   starts, cycles_done, interrupted_at, printed>>

\* elapsed = time.time() - start_time; sleep_time = max(0, 1.0 - elapsed)
Pace ==
    /\ mode = "stream" /\ pc = "pace"
    /\ elapsed' = now - start_time
    /\ sleep_time' = SleepTime(elapsed')
    /\ pc' = "sleep"
    /\ UNCHANGED <<entryVars, mode, backfillVars, LOGS_PER_SECOND, batch, batch_count,
                   response, now, start_time, calls, starts, cycles_done,
                   interrupted_at, printed>>

\* time.sleep(sleep_time), then back to `while True:`
Sleep ==
    /\ mode = "stream" /\ pc = "sleep"
    /\ now' = now + sleep_time
    /\ cycles_done' = cycles_done + 1
    /\ pc' = "start"
    /\ UNCHANGED <<entryVars, mode, backfillVars, LOGS_PER_SECOND, batch, batch_count,
                   response, start_time, elapsed, sleep_time, calls, starts,
                   interrupted_at, printed>>

\* a different design: the interrupt lets the call in flight return and be
\* counted before the loop stops
KeyboardInterruptAfterDispatch ==
    /\ mode = "stream" /\ pc \in StreamLoopPcs
    /\ interrupted_at' = pc
    /\ pc' = "interrupted"
    /\ calls' = IF pc = "post"
                THEN Append(calls, [batch |-> batch,
                                    result |-> [raised |-> NoException,
                                                status_code |-> 202]])
                ELSE calls
    /\ batch_count' = IF pc = "post" THEN batch_count + 1 ELSE batch_count
    /\ now' = now + (IF pc = "sleep" THEN sleep_time ELSE 0)
    /\ UNCHANGED <<entryVars, mode, backfillVars, LOGS_PER_SECOND, batch, response,
                   start_time, elapsed, sleep_time, starts, cycles_done,
                   printed>>

\* Ctrl+C: KeyboardInterrupt is raised at whatever statement of the loop is
\* running and unwinds to `except KeyboardInterrupt:` around `while True:`.
\* A requests.post in flight is abandoned; a time.sleep is cut short.
KeyboardInterrupt ==
    /\ mode = "stream" /\ pc \in StreamLoopPcs
    /\ interrupted_at' = pc
    /\ pc' = "interrupted"
    /\ calls' = IF pc = "post"
                THEN Append(calls, [batch |-> batch,
                                    result |-> [raised |-> "KeyboardInterrupt",
                                                status_code |-> 0]])
                ELSE calls
    /\ \E d \in 0..(IF pc = "sleep" /\ sleep_time > 0 THEN sleep_time - 1 ELSE 0) :
         now' = now + d
    /\ UNCHANGED <<entryVars, mode, backfillVars, LOGS_PER_SECOND, batch, batch_count,
                   response, start_time, elapsed, sleep_time, starts,
                   cycles_done, printed>>

\* except KeyboardInterrupt: print("Stream stopped by user.")
Stopped ==
    /\ mode = "stream" /\ pc = "interrupted"
    /\ pc' = "done"
    /\ UNCHANGED <<entryVars, mode, backfillVars, streamVars, batch, response, now,
                   calls, printed>>

NextStream ==
    \/ StartCycle
    \/ GenerateBatch
    \/ StreamPost
    \/ StreamHandle
    \/ StreamExcept
    \/ Pace
    \/ Sleep
    \/ KeyboardInterrupt
    \/ Stopped

\* ------------------------------------------------------------- log entry
\* The timestamp of one record, as generate_log_entry() computes it. An
\* instant is a count of seconds and the microseconds within the second; a
\* formatted timestamp carries seconds and milliseconds. In the run loops
\* above a record stands for its generation number; its timestamp is
\* modelled here, one call at a time.
\* TIME_RANGE values: the four options and an unrecognised name
RangeNames == {"last_hour", "last_6_hours", "last_24_hours", "last_week",
               "last_month"}

\* readings of datetime.now(timezone.utc): on a millisecond and between two
Clocks == {[sec |-> 0, micro |-> u] : u \in {0, 123456, 999999}}

\* a slip: a week counted as 8 days
GetTimeRangeSecondsLongWeek(name) ==
    CASE name = "last_hour" -> 3600
      [] name = "last_6_hours" -> 21600
      [] name = "last_24_hours" -> 86400
      [] name = "last_week" -> 691200
      [] OTHER -> 86400

\* get_time_range_seconds(): ranges.get(TIME_RANGE, 86400)
GetTimeRangeSeconds(name) ==
    CASE name = "last_hour" -> 3600
      [] name = "last_6_hours" -> 21600
      [] name = "last_24_hours" -> 86400
      [] name = "last_week" -> 604800
      [] OTHER -> 86400

\* random.randint(a, b): any integer from a to b, both included
RandInt(a, b) == a..b

\* now - timedelta(seconds=offset)
MinusSeconds(t, offset) == [sec |-> t.sec - offset, micro |-> t.micro]

\* strftime('%Y-%m-%dT%H:%M:%S.%f')[:-3] + 'Z': the last three of the six
\* microsecond digits are cut off
Format(t) == [sec |-> t.sec, milli |-> t.micro \div 1000]

InitEntry ==
    /\ mode = "entry"
    /\ pc = "generate_log_entry"
    /\ TIME_RANGE \in RangeNames
    /\ clock = NoInstant
    /\ time_offset = 0
    /\ timestamp = NoTimestamp
    /\ TOTAL_LOGS = 0
    /\ BATCH_SIZE = 0
    /\ LOGS_PER_SECOND = 0
    /\ i = 0
    /\ batch = <<>>
    /\ total_sent = 0
    /\ batch_count = 0
    /\ response = NoResponse
    /\ now = 0
    /\ start_time = 0
    /\ elapsed = 0
    /\ sleep_time = 0
    /\ calls = <<>>
    /\ starts = <<>>
    /\ cycles_done = 0
    /\ interrupted_at = "never"
    /\ printed = -1

\* max_offset = get_time_range_seconds(); time_offset = random.randint(0,
\* max_offset); timestamp_dt = now - timedelta(seconds=time_offset);
\* timestamp = formatted timestamp_dt
GenerateLogEntry ==
    /\ mode = "entry" /\ pc = "generate_log_entry"
    /\ \E off \in RandInt(0, GetTimeRangeSeconds(TIME_RANGE)) :
         \E t \in Clocks :
            /\ time_offset' = off
            /\ clock' = t
            /\ timestamp' = Format(MinusSeconds(t, off))
    /\ pc' = "returned"
    /\ UNCHANGED <<mode, TIME_RANGE, backfillVars, streamVars, batch,
                   response, now, calls, printed>>

SpecEntry == InitEntry /\ [][GenerateLogEntry]_vars

\* ------------------------------------------------------------- specification
Init == InitBackfill \/ InitStream

Next == NextBackfill \/ NextStream

Spec == Init /\ [][Next]_vars

\* ------------------------------------------------------------- properties
Range(q) == {q[k] : k \in 1..Len(q)}

Last(q) == q[Len(q)]

CeilDiv(a, b) == (a + b - 1) \div b

\* a response arrived, with status 202 / with any other status
Accepted(r) == r.raised = NoException /\ r.status_code = 202
Rejected(r) == r.raised = NoException /\ r.status_code # 202
ConnectionFailure(r) == r.raised = "ConnectionError"

\* total size of the accepted batches among the calls cs
RECURSIVE AcceptedSize(_)
AcceptedSize(cs) ==
    IF cs = <<>> THEN 0
    ELSE AcceptedSize(SubSeq(cs, 1, Len(cs) - 1))
         + (IF Accepted(Last(cs).result) THEN Len(Last(cs).batch) ELSE 0)

\* number of accepted calls among the calls cs
AcceptedCount(cs) == Cardinality({k \in 1..Len(cs) : Accepted(cs[k].result)})

\* every call so far ended with a response (Accepted or Rejected)
AllAnswered == \A k \in 1..Len(calls) : calls[k].result.raised = NoException

\* the calls whose outcome the loop has already handled: all but a call
\* whose response is about to be tested, or was when Ctrl+C ended the loop
HandledCalls ==
    IF pc \in {"handle", "flush_handle"} \/ interrupted_at = "handle"
    THEN SubSeq(calls, 1, Len(calls) - 1)
    ELSE calls

\* C1: a backfill run in which every dispatch got a response makes exactly
\* ceil(TOTAL_LOGS / BATCH_SIZE) dispatch calls; every call but the last
\* carries BATCH_SIZE records and the last carries TOTAL_LOGS mod BATCH_SIZE
\* records, or BATCH_SIZE when that is zero.
C1_DispatchCount ==
    (mode = "backfill" /\ pc \in {"summary", "done"} /\ AllAnswered) =>
        /\ Len(calls) = CeilDiv(TOTAL_LOGS, BATCH_SIZE)
        /\ \A k \in 1..(Len(calls) - 1) : Len(calls[k].batch) = BATCH_SIZE
        /\ calls # <<>> =>
             Len(Last(calls).batch) =
                 IF TOTAL_LOGS % BATCH_SIZE = 0 THEN BATCH_SIZE
                 ELSE TOTAL_LOGS % BATCH_SIZE

\* C1 witness: BATCH_SIZE 3, TOTAL_LOGS 7: two full calls and a flush of one,
\* one of them rejected.
C1_Witness ==
    /\ mode = "backfill" /\ pc = "done" /\ AllAnswered
    /\ BATCH_SIZE = 3 /\ TOTAL_LOGS = 7
    /\ Len(calls) = 3 /\ Len(calls[3].batch) = 1
    /\ Rejected(calls[2].result)

\* a backfill call ended in ConnectionError
ConnectionFailed ==
    mode = "backfill" /\ \E k \in 1..Len(calls) : ConnectionFailure(calls[k].result)

\* C2: once a backfill dispatch (full batch or final flush) ends in
\* ConnectionError the run is aborted: that call is the last one, no record is
\* generated and no call is made afterwards, control goes to the handler and
\* the summary, and total_sent is the size of the accepted batches among the
\* calls before it.
C2_AbortOnConnectionFailure ==
    [][ConnectionFailed =>
          /\ ConnectionFailure(Last(calls).result)
          /\ pc \in {"except", "summary"}
          /\ pc' \in {"summary", "done"}
          /\ i' = i /\ batch' = batch /\ calls' = calls
          /\ total_sent' = total_sent
          /\ total_sent = AcceptedSize(SubSeq(calls, 1, Len(calls) - 1))]_vars

\* C2 witness: the third call fails after two accepted ones, with records
\* still to generate: total_sent is 2 * BATCH_SIZE.
C2_Witness ==
    /\ mode = "backfill" /\ pc = "done"
    /\ Len(calls) = 3 /\ ConnectionFailure(calls[3].result)
    /\ Accepted(calls[1].result) /\ Accepted(calls[2].result)
    /\ total_sent = 2 * BATCH_SIZE /\ printed = total_sent
    /\ i < TOTAL_LOGS

\* C3: in stream mode the loop ends only by external cancellation
\* (KeyboardInterrupt): whenever control has left `while True:`, an interrupt
\* was raised.
C3_StreamStopsOnlyOnCancel ==
    (mode = "stream" /\ pc \notin StreamLoopPcs) => interrupted_at # "never"

C6_NoCrash == pc # "crashed"

\* C7: in every stream cycle, whatever the outcome, elapsed is the time from
\* the cycle's start to after the outcome is handled and the sleep issued is
\* max(0, quantum - elapsed); the sleep over, the time since the cycle's start
\* is exactly the quantum when elapsed < quantum, and elapsed (a zero sleep)
\* otherwise.
C7_SleepIsRemainderOfQuantum ==
    [][mode = "stream" =>
          /\ (pc = "pace" /\ pc' = "sleep") =>
                /\ elapsed' = now - Last(starts)
                /\ sleep_time' = IF elapsed' < QUANTUM THEN QUANTUM - elapsed'
                                 ELSE 0
          /\ (pc = "sleep" /\ pc' = "start") =>
                now' - Last(starts) = IF elapsed < QUANTUM THEN QUANTUM
                                      ELSE elapsed]_vars

\* C7 witness: a cycle that over-ran the quantum, then a cycle ending in
\* ConnectionError faster than the quantum, about to sleep the remainder.
C7_Witness ==
    /\ mode = "stream" /\ pc = "sleep" /\ Len(starts) = 2
    /\ starts[2] - starts[1] > QUANTUM
    /\ ConnectionFailure(Last(calls).result)
    /\ elapsed > 0 /\ elapsed < QUANTUM /\ sleep_time = QUANTUM - elapsed

\* C8: no drift compensation and no burst: the sleep makes up only the
\* cycle's own shortfall, so consecutive cycle starts are at least one quantum
\* apart and at most k+1 cycles start within k quanta of the first start.
C8_NoCatchUp ==
    mode = "stream" =>
        /\ \A k \in 1..(Len(starts) - 1) : starts[k + 1] - starts[k] >= QUANTUM
        /\ \A k \in 0..Len(starts) :
             Cardinality({j \in 1..Len(starts) :
                             starts[j] - starts[1] <= k * QUANTUM}) <= k + 1
        /\ pc = "sleep" =>
             sleep_time = IF elapsed < QUANTUM THEN QUANTUM - elapsed ELSE 0

\* C8 witness: the first cycle over-ran the quantum; the later ones still
\* start a full quantum apart.
C8_Witness ==
    /\ mode = "stream" /\ Len(starts) = 3
    /\ starts[2] - starts[1] > QUANTUM
    /\ starts[3] - starts[2] = QUANTUM

\* no record of a rejected batch is in any later call
NoRetry ==
    \A k \in 1..Len(calls) : \A m \in (k + 1)..Len(calls) :
        Rejected(calls[k].result) =>
            Range(calls[k].batch) \cap Range(calls[m].batch) = {}

\* C9: a response with a status other than 202 is non-fatal in both modes:
\* backfill clears the batch and goes back to the for loop (to the summary
\* after the final flush), stream goes on to its pacing sleep, no counter
\* changes, and no later call carries a record of the rejected batch.
C9_RejectedIsNonFatal ==
    [][/\ (mode = "backfill" /\ pc = "handle" /\ Rejected(response)) =>
             (pc' = "for" /\ batch' = <<>> /\ total_sent' = total_sent)
       /\ (mode = "backfill" /\ pc = "flush_handle" /\ Rejected(response)) =>
             (pc' = "summary" /\ total_sent' = total_sent)
       /\ (mode = "stream" /\ pc = "handle" /\ Rejected(response)
             /\ pc' # "interrupted") =>
             (pc' = "pace" /\ batch_count' = batch_count)
       /\ NoRetry']_vars

\* C9 witness: a backfill run went on after two rejected calls (a 500 and a
\* 200) and made a third call, with new records, that was accepted.
C9_Witness ==
    /\ mode = "backfill" /\ Len(calls) = 3
    /\ Rejected(calls[1].result) /\ calls[1].result.status_code = 500
    /\ Rejected(calls[2].result) /\ calls[2].result.status_code = 200
    /\ Accepted(calls[3].result)
    /\ pc \in {"handle", "flush_handle"}

\* C10: backfill's total_sent is the total size of the batches whose dispatch
\* was answered with status 202 and handled so far; rejected and failed
\* dispatches add nothing.
C10_TotalSentIsAcceptedSize ==
    mode = "backfill" => total_sent = AcceptedSize(HandledCalls)

\* C10 witness: a 200, a 202 and a ConnectionError: only the 202 counts.
C10_Witness ==
    /\ mode = "backfill" /\ pc = "done" /\ Len(calls) = 3
    /\ calls[1].result.status_code = 200
    /\ Accepted(calls[2].result)
    /\ ConnectionFailure(calls[3].result)
    /\ total_sent = BATCH_SIZE /\ printed = BATCH_SIZE
\* the records carried by the calls made so far
Dispatched == UNION {Range(calls[k].batch) : k \in 1..Len(calls)}

\* the backfill run ended without a failed call: Completed
Completed == mode = "backfill" /\ pc \in {"summary", "done"} /\ AllAnswered

\* C11: in backfill no record is carried by two dispatch calls (nor twice by
\* one), and in a run that reaches Completed every one of the TOTAL_LOGS
\* records is carried by exactly one call.
C11_EachRecordDispatchedOnce ==
    mode = "backfill" =>
        /\ \A k \in 1..Len(calls) : \A m \in 1..Len(calls) :
             k # m => Range(calls[k].batch) \cap Range(calls[m].batch) = {}
        /\ \A k \in 1..Len(calls) :
             Cardinality(Range(calls[k].batch)) = Len(calls[k].batch)
        /\ Completed => Dispatched = 1..TOTAL_LOGS

\* C11 witness: a completed run of 7 records in batches of 3, with an
\* accepted, a rejected and an accepted call; all 7 records were carried.
C11_Witness ==
    /\ Completed /\ pc = "done" /\ TOTAL_LOGS = 7 /\ BATCH_SIZE = 3
    /\ Accepted(calls[1].result) /\ Rejected(calls[2].result)
    /\ Accepted(calls[3].result)
    /\ Dispatched = 1..7

\* C12: in backfill the list never holds more than BATCH_SIZE records: it is
\* sent and cleared as soon as it holds BATCH_SIZE, before the next append, so
\* while records are appended it holds fewer, and every call carries at most
\* BATCH_SIZE records.
C12_BatchNeverExceedsSize ==
    mode = "backfill" =>
        /\ Len(batch) <= BATCH_SIZE
        /\ pc = "for" => Len(batch) < BATCH_SIZE
        /\ pc \in {"post", "handle"} => Len(batch) = BATCH_SIZE
        /\ \A k \in 1..Len(calls) : Len(calls[k].batch) <= BATCH_SIZE

\* C12 witness: the list is full again (3 of 3) after one full call, about
\* to be sent.
C12_Witness ==
    /\ mode = "backfill" /\ pc = "post" /\ BATCH_SIZE = 3
    /\ Len(batch) = 3 /\ Len(calls) = 1 /\ i = 6
\* the records of sequence q are in increasing generation order
Increasing(q) == \A a \in 1..Len(q) : \A b \in 1..Len(q) : a < b => q[a] < q[b]

\* C16: backfill dispatches records in generation order: within every call
\* the records are in the order they were generated, and every record of an
\* earlier call was generated before every record of a later call.
C16_GenerationOrder ==
    mode = "backfill" =>
        /\ Increasing(batch)
        /\ \A k \in 1..Len(calls) : Increasing(calls[k].batch)
        /\ \A k \in 1..Len(calls) : \A m \in 1..Len(calls) :
             k < m => \A x \in Range(calls[k].batch) :
                        \A y \in Range(calls[m].batch) : x < y

\* C16 witness: three calls carrying <<1,2,3>>, <<4,5,6>>, <<7>>.
C16_Witness ==
    /\ mode = "backfill" /\ Len(calls) = 3
    /\ calls[1].batch = <<1, 2, 3>>
    /\ calls[2].batch = <<4, 5, 6>>
    /\ calls[3].batch = <<7>>

\* the backfill run is over: the summary was printed or an exception left main
RunEnded == mode = "backfill" /\ pc \in {"done", "crashed"}

\* the final flush of a partial batch has been handled
FlushCounted == pc \in {"summary", "done"} /\ Len(batch) > 0

\* C17: in backfill 0 <= total_sent <= records generated so far <=
\* TOTAL_LOGS; total_sent is a multiple of BATCH_SIZE until the final partial
\* flush is counted; at the end of the run total_sent = TOTAL_LOGS exactly
\* when every dispatch call was accepted.
C17_TotalSentBounds ==
    mode = "backfill" =>
        /\ 0 <= total_sent /\ total_sent <= i /\ i <= TOTAL_LOGS
        /\ ~FlushCounted => total_sent % BATCH_SIZE = 0
        /\ RunEnded =>
             ((total_sent = TOTAL_LOGS) <=>
                 (\A k \in 1..Len(calls) : Accepted(calls[k].result)))

\* C17 witness: 7 records in batches of 3, all three calls accepted:
\* total_sent is 7, not a multiple of 3 after the flush.
C17_Witness ==
    /\ mode = "backfill" /\ pc = "done" /\ TOTAL_LOGS = 7 /\ BATCH_SIZE = 3
    /\ Len(calls) = 3 /\ \A k \in 1..3 : Accepted(calls[k].result)
    /\ total_sent = 7

\* C18: backfill never sends an empty batch: every call carries at least one
\* record, the final flush is made only with a non-empty list, so not when
\* BATCH_SIZE divides TOTAL_LOGS, and with TOTAL_LOGS = 0 no call is made.
C18_NoEmptyDispatch ==
    mode = "backfill" =>
        /\ \A k \in 1..Len(calls) : Len(calls[k].batch) >= 1
        /\ pc \in {"flush_post", "flush_handle"} =>
             (batch # <<>> /\ TOTAL_LOGS % BATCH_SIZE # 0)
        /\ TOTAL_LOGS = 0 => calls = <<>>
        /\ (pc = "done" /\ AllAnswered /\ TOTAL_LOGS % BATCH_SIZE = 0) =>
             Len(calls) * BATCH_SIZE = TOTAL_LOGS

\* C18 witness: 6 records in batches of 3: the run ended after two full
\* calls, without a flush.
C18_Witness ==
    /\ mode = "backfill" /\ pc = "done" /\ TOTAL_LOGS = 6 /\ BATCH_SIZE = 3
    /\ Len(calls) = 2 /\ AllAnswered /\ batch = <<>>
\* the records generated in stream cycle k
CycleRecords(k) ==
    [j \in 1..LOGS_PER_SECOND |-> (k - 1) * LOGS_PER_SECOND + j]

\* C15: every stream cycle generates exactly LOGS_PER_SECOND records and
\* makes exactly one dispatch call, carrying all of them; a cycle's generation
\* and call begin only after the previous cycle's call has returned and its
\* sleep has ended, so calls never overlap.
C15_OneCallPerCycle ==
    mode = "stream" =>
        /\ \A k \in 1..Len(calls) : calls[k].batch = CycleRecords(k)
        /\ pc = "start" =>
             (Len(calls) = Len(starts) /\ cycles_done = Len(starts))
        /\ pc \in {"generate", "post"} =>
             (Len(calls) = Len(starts) - 1 /\ cycles_done = Len(starts) - 1)
        /\ pc = "post" => batch = CycleRecords(Len(starts))
        /\ pc \in {"handle", "except", "pace", "sleep"} =>
             (Len(calls) = Len(starts) /\ cycles_done = Len(starts) - 1)

\* C15 witness: the third cycle's call is in flight with its 2 records, after
\* two cycles with one call each.
C15_Witness ==
    /\ mode = "stream" /\ pc = "post" /\ LOGS_PER_SECOND = 2
    /\ Len(starts) = 3 /\ Len(calls) = 2 /\ cycles_done = 2
    /\ batch = <<5, 6>>

\* C19: the stream counter batch_count changes only when a response with
\* status exactly 202 is handled, and then by one; it never decreases; in
\* every state it is the number of accepted calls handled so far (a response
\* counts once its status test has run) and at most the number of cycles
\* started.
C19_BatchCountCountsAccepted ==
    [][mode = "stream" =>
          /\ batch_count' # batch_count =>
                /\ pc = "handle"
                /\ response.raised = NoException /\ response.status_code = 202
                /\ batch_count' = batch_count + 1
          /\ (pc = "handle" /\ pc' = "pace" /\ response.status_code = 202) =>
                batch_count' = batch_count + 1
          /\ batch_count = AcceptedCount(HandledCalls)
          /\ batch_count' = AcceptedCount(HandledCalls')
          /\ batch_count' <= Len(starts')]_vars

\* C19 witness: three cycles answered 200, 202 and ConnectionError:
\* batch_count is 1.
C19_Witness ==
    /\ mode = "stream" /\ pc = "sleep" /\ Len(starts) = 3
    /\ calls[1].result.status_code = 200
    /\ Accepted(calls[2].result)
    /\ ConnectionFailure(calls[3].result)
    /\ batch_count = 1
\* C13: every backfill run terminates at the final summary: a run that can
\* take no further step has reached the summary print, which reported
\* total_sent, after Completed or Aborted.
C13_EndsWithSummary ==
    (mode = "backfill" /\ ~ENABLED NextBackfill) =>
        (pc = "done" /\ printed = total_sent)
\* instant a is not later than instant b
NotAfter(a, b) == a.sec < b.sec \/ (a.sec = b.sec /\ a.micro <= b.micro)

\* the instant a formatted timestamp denotes
Instant(ts) == [sec |-> ts.sec, micro |-> ts.milli * 1000]

\* windowSeconds, mapped from the configured range name (24 hours for an
\* unrecognised name)
WindowSeconds ==
    CASE TIME_RANGE = "last_hour" -> 3600
      [] TIME_RANGE = "last_6_hours" -> 21600
      [] TIME_RANGE = "last_24_hours" -> 86400
      [] TIME_RANGE = "last_week" -> 604800
      [] OTHER -> 86400

\* now - windowSeconds, for the clock reading of the generation
WindowStart == [sec |-> clock.sec - WindowSeconds, micro |-> clock.micro]

\* C14 as claimed: every backfill timestamp lies within
\* [now - windowSeconds, now] at the moment of generation, the offset being a
\* whole number of seconds from 0 to windowSeconds.
C14_TimestampInWindow ==
    (mode = "entry" /\ pc = "returned") =>
        /\ time_offset \in 0..WindowSeconds
        /\ NotAfter(WindowStart, Instant(timestamp))
        /\ NotAfter(Instant(timestamp), clock)

\* C14 amended: the offset is a whole number of seconds from 0 to
\* windowSeconds, so the instant now - offset lies within
\* [now - windowSeconds, now]; the timestamp is that instant cut to the
\* millisecond: never later than it and less than a millisecond earlier, so
\* never after now and less than a millisecond before now - windowSeconds.
C14_TimestampInWindowToTheMillisecond ==
    (mode = "entry" /\ pc = "returned") =>
        /\ time_offset \in 0..WindowSeconds
        /\ timestamp.sec = clock.sec - time_offset
        /\ timestamp.sec >= WindowStart.sec /\ timestamp.sec <= clock.sec
        /\ timestamp.milli * 1000 <= clock.micro
        /\ clock.micro - timestamp.milli * 1000 < 1000
        /\ NotAfter(Instant(timestamp), clock)

\* C14 witness: an unrecognised range name, the largest offset of the
\* 24-hour default and a clock reading between two milliseconds.
C14_Witness ==
    /\ mode = "entry" /\ pc = "returned" /\ TIME_RANGE = "last_month"
    /\ time_offset = 86400
    /\ clock.micro = 123456 /\ timestamp.milli = 123
    /\ timestamp.sec = clock.sec - 86400
====
